---- MODULE Spec2Model ----
(***************************************************************************)
(* Model of shell_emulator.py: a virtual filesystem built from a zip       *)
(* archive (VirtualFileSystem) and the shell session that runs the         *)
(* commands ls, cd, chmod, rm, find and exit over it (ShellEmulator).      *)
(*                                                                         *)
(* A Python str is a sequence of one-character strings, so that strip,     *)
(* split, startswith, basename and join are modelled by what they do.      *)
(* A VirtualFile object is an entry of the heap `nodes`, keyed by an       *)
(* object identity; `==` on VirtualFile objects is identity.  A children   *)
(* dict is the sequence of the children's identities in insertion order;   *)
(* the key of a child is its name (the only insertion, in _add_file,       *)
(* stores VirtualFile(name) under the key name).                           *)
(***************************************************************************)
EXTENDS Integers, Sequences, FiniteSets, TLC

VARIABLES
    nodes,      \* heap: object identity -> VirtualFile
    cwd,        \* VirtualFileSystem.cwd (identity; NoNode before it is assigned)
    pending,    \* zipf.infolist() entries load_zip has not processed yet
    archive,    \* zipf.infolist(), the whole archive
    pc,         \* position of the process (see the actions)
    cmd,        \* the command line executed last: [name, args]
    out         \* the lines that command printed

vars == <<nodes, cwd, pending, archive, pc, cmd, out>>

-----------------------------------------------------------------------------
(* Python str operations *)

SEP == "/"

RECURSIVE LStrip(_)
\* str.lstrip('/')
LStrip(s) == IF s # <<>> /\ Head(s) = SEP THEN LStrip(Tail(s)) ELSE s

RECURSIVE RStrip(_)
\* str.rstrip('/')
RStrip(s) ==
    IF s # <<>> /\ s[Len(s)] = SEP THEN RStrip(SubSeq(s, 1, Len(s) - 1)) ELSE s

\* str.strip('/')
Strip(s) == RStrip(LStrip(s))

RECURSIVE SplitFrom(_, _)
\* str.split('/') continued: `acc` is the segment being read
SplitFrom(s, acc) ==
    IF s = <<>> THEN <<acc>>
    ELSE IF Head(s) = SEP THEN <<acc>> \o SplitFrom(Tail(s), <<>>)
    ELSE SplitFrom(Tail(s), Append(acc, Head(s)))

\* str.split('/'): always at least one segment, ''.split('/') = ['']
Split(s) == SplitFrom(s, <<>>)

\* str.startswith('/')
StartsWithSep(s) == s # <<>> /\ Head(s) = SEP

\* str.endswith('/')
EndsWithSep(s) == s # <<>> /\ s[Len(s)] = SEP

RECURSIVE Basename(_)
\* os.path.basename: what follows the last '/'
Basename(s) ==
    IF s = <<>> \/ s[Len(s)] = SEP THEN <<>>
    ELSE Append(Basename(SubSeq(s, 1, Len(s) - 1)), s[Len(s)])

\* os.path.join(a, b) (posixpath)
PathJoin(a, b) ==
    IF StartsWithSep(b) THEN b
    ELSE IF a = <<>> \/ EndsWithSep(a) THEN a \o b
    ELSE a \o <<SEP>> \o b

-----------------------------------------------------------------------------
(* VirtualFile and the permission test *)

NoNode == 0
ROOT == 1

DEFAULT_MODE == 493     \* 0o755

\* VirtualFile.__init__
VirtualFile(name, is_dir, permissions) ==
    [name |-> name, is_dir |-> is_dir, permissions |-> permissions,
     children |-> <<>>]

\* mode & bit, for a bit 2^k of a non-negative mode
BitAnd(mode, bit) == IF (mode \div bit) % 2 = 1 THEN bit ELSE 0

R_BIT == 256    \* 0o400
W_BIT == 128    \* 0o200
X_BIT == 64     \* 0o100

\* VirtualFileSystem.has_permission
HasPermission(file_obj, permission_type) ==
    LET mode == file_obj.permissions IN
    IF permission_type = "r" THEN BitAnd(mode, R_BIT) # 0
    ELSE IF permission_type = "w" THEN BitAnd(mode, W_BIT) # 0
    ELSE IF permission_type = "x" THEN BitAnd(mode, X_BIT) # 0
    ELSE FALSE

\* the identities stored in a children dict, as a set
ChildSet(ns, d) == {ns[d].children[i] : i \in 1..Len(ns[d].children)}

\* `name in d.children`
HasChild(ns, d, name) == \E c \in ChildSet(ns, d) : ns[c].name = name

\* `d.children[name]`
Child(ns, d, name) == CHOOSE c \in ChildSet(ns, d) : ns[c].name = name

-----------------------------------------------------------------------------
(* Building the tree from the archive *)

\* a zipfile.ZipInfo: the entry's name and its external attributes, an
\* unsigned 32-bit field held as its two 16-bit halves <<high, low>>
ZipInfo(filename, external_attr) ==
    [filename |-> filename, external_attr |-> external_attr]

\* external_attr >> 16
ShiftRight16(external_attr) == external_attr[1]

\* ZipInfo.is_dir(): the entry's name ends with '/'
IsDirEntry(file_info) == EndsWithSep(file_info.filename)

\* the permissions with the default put in before the mask is applied
EntryPermissionsDefaultFirst(file_info) ==
    LET shifted == ShiftRight16(file_info.external_attr) IN
    IF shifted = 0 THEN DEFAULT_MODE ELSE shifted % 512

\* (file_info.external_attr >> 16) & 0o777, 0 replaced by 0o755
EntryPermissions(file_info) ==
    LET permissions == ShiftRight16(file_info.external_attr) % 512 IN
    IF permissions = 0 THEN DEFAULT_MODE ELSE permissions

\* the identity of the next VirtualFile object created
NewId(ns) == Cardinality(DOMAIN ns) + 1

\* the heap with `obj` stored as the new object `id`
Alloc(ns, id, obj) == [i \in DOMAIN ns \cup {id} |-> IF i = id THEN obj ELSE ns[i]]

RECURSIVE AddFile(_, _, _, _)
\* VirtualFileSystem._add_file
AddFile(ns, current_dir, path_parts, file_info) ==
    IF path_parts = <<>> THEN ns
    ELSE
        LET name == Head(path_parts)
            id == NewId(ns)
            created ==
                IF ~HasChild(ns, current_dir, name)
                THEN [Alloc(ns, id, VirtualFile(name, IsDirEntry(file_info),
                                                EntryPermissions(file_info)))
                        EXCEPT ![current_dir].children = Append(@, id)]
                ELSE ns
        IN AddFile(created, Child(created, current_dir, name),
                   Tail(path_parts), file_info)

\* VirtualFileSystem.__init__ before load_zip: the root alone
EmptyTree == [i \in {ROOT} |-> VirtualFile(<<SEP>>, TRUE, DEFAULT_MODE)]

\* the iteration without the strip of the entry's name
LoadEntryUnstripped(ns, file_info) ==
    AddFile(ns, ROOT, Split(file_info.filename), file_info)

\* one iteration of the loop of load_zip
LoadEntry(ns, file_info) ==
    AddFile(ns, ROOT, Split(Strip(file_info.filename)), file_info)

RECURSIVE LoadFrom(_, _)
\* the loop of load_zip over the remaining entries
LoadFrom(ns, infolist) ==
    IF infolist = <<>> THEN ns
    ELSE LoadFrom(LoadEntry(ns, Head(infolist)), Tail(infolist))

\* VirtualFileSystem.load_zip on a fresh tree
LoadZip(infolist) == LoadFrom(EmptyTree, infolist)

-----------------------------------------------------------------------------
(* Parent lookup, path resolution, path reconstruction *)

RECURSIVE FindParent(_, _, _), FindParentIn(_, _, _, _)
\* the loop of _find_parent over current.children.values(), from position i
FindParentIn(ns, current, i, target) ==
    IF i > Len(ns[current].children) THEN NoNode
    ELSE
        LET child == ns[current].children[i]
            parent == IF ns[child].is_dir THEN FindParent(ns, child, target)
                      ELSE NoNode
        IN IF child = target THEN current
           ELSE IF parent # NoNode THEN parent
           ELSE FindParentIn(ns, current, i + 1, target)

\* VirtualFileSystem._find_parent (None is NoNode)
FindParent(ns, current, target) == FindParentIn(ns, current, 1, target)

RECURSIVE Walk(_, _, _)
\* the walk with '..' always going to the root
WalkUpToRoot(ns, current, parts) ==
    IF parts = <<>> THEN current
    ELSE
        LET part == Head(parts) IN
        IF part = <<>> \/ part = <<".">> THEN Walk(ns, current, Tail(parts))
        ELSE IF part = <<".", ".">> THEN Walk(ns, ROOT, Tail(parts))
        ELSE IF HasChild(ns, current, part)
            THEN Walk(ns, Child(ns, current, part), Tail(parts))
        ELSE NoNode

\* the walk that passes over a segment naming no child
WalkSkippingMissing(ns, current, parts) ==
    IF parts = <<>> THEN current
    ELSE
        LET part == Head(parts) IN
        IF part = <<>> \/ part = <<".">> THEN Walk(ns, current, Tail(parts))
        ELSE IF part = <<".", ".">> THEN
            LET parent_dir == FindParent(ns, ROOT, current) IN
            Walk(ns, IF parent_dir # NoNode THEN parent_dir ELSE ROOT, Tail(parts))
        ELSE IF HasChild(ns, current, part)
            THEN Walk(ns, Child(ns, current, part), Tail(parts))
        ELSE Walk(ns, current, Tail(parts))

\* the walk that goes down only from a node with the execute bit
WalkGated(ns, current, parts) ==
    IF parts = <<>> THEN current
    ELSE
        LET part == Head(parts) IN
        IF part = <<>> \/ part = <<".">> THEN Walk(ns, current, Tail(parts))
        ELSE IF part = <<".", ".">> THEN
            LET parent_dir == FindParent(ns, ROOT, current) IN
            Walk(ns, IF parent_dir # NoNode THEN parent_dir ELSE ROOT, Tail(parts))
        ELSE IF HasChild(ns, current, part) /\ HasPermission(ns[current], "x")
            THEN Walk(ns, Child(ns, current, part), Tail(parts))
        ELSE NoNode

\* the loop of _navigate_path over parts
Walk(ns, current, parts) ==
    IF parts = <<>> THEN current
    ELSE
        LET part == Head(parts) IN
        IF part = <<>> \/ part = <<".">> THEN Walk(ns, current, Tail(parts))
        ELSE IF part = <<".", ".">> THEN
            LET parent_dir == FindParent(ns, ROOT, current) IN
            Walk(ns, IF parent_dir # NoNode THEN parent_dir ELSE ROOT, Tail(parts))
        ELSE IF HasChild(ns, current, part)
            THEN Walk(ns, Child(ns, current, part), Tail(parts))
        ELSE NoNode

\* VirtualFileSystem._navigate_path (None is NoNode)
NavigatePath(ns, cur, path, parent) ==
    LET parts == Split(Strip(path))
        current == IF StartsWithSep(path) THEN ROOT ELSE cur
    IN Walk(ns, current,
            IF parent THEN SubSeq(parts, 1, Len(parts) - 1) ELSE parts)

\* the outcome of a call that may raise
Raised == [ok |-> FALSE, value |-> <<>>]
Returned(v) == [ok |-> TRUE, value |-> v]

RECURSIVE GetPathFrom(_, _, _)
\* the loop of _get_path; None.name raises AttributeError
GetPathFrom(ns, dir_obj, path) ==
    IF dir_obj = ROOT THEN Returned(IF path = <<>> THEN <<SEP>> ELSE path)
    ELSE IF dir_obj = NoNode THEN Raised
    ELSE GetPathFrom(ns, FindParent(ns, ROOT, dir_obj),
                     <<SEP>> \o ns[dir_obj].name \o path)

\* VirtualFileSystem._get_path
GetPath(ns, dir_obj) == GetPathFrom(ns, dir_obj, <<>>)

-----------------------------------------------------------------------------
(* The commands.  A printed line is the format string with the text put    *)
(* into its {} hole; print(x) alone is the format "{}".                    *)

Line(fmt, arg) == [fmt |-> fmt, arg |-> arg]

Plain(s) == Line("{}", s)

\* what a command leaves behind: the heap, the cursor, the printed lines
Effect(ns, cur, lines) == [nodes |-> ns, cwd |-> cur, out |-> lines]

\* VirtualFileSystem._get_target_dir: the directory, and what it printed
GetTargetDir(ns, cur, args) ==
    IF args = <<>> THEN [dir |-> cur, out |-> <<>>]
    ELSE
        LET target == NavigatePath(ns, cur, args[1], FALSE) IN
        IF target # NoNode /\ ns[target].is_dir
        THEN [dir |-> target, out |-> <<>>]
        ELSE [dir |-> NoNode,
              out |-> <<Line("ls: cannot access '{}': No such file or directory",
                             args[1])>>]

\* ls that lists a directory without testing its read bit
LsUnchecked(ns, cur, args) ==
    LET got == GetTargetDir(ns, cur, args)
        target_dir == got.dir
    IN IF target_dir # NoNode
       THEN Effect(ns, cur, got.out \o
                [i \in 1..Len(ns[target_dir].children) |->
                    Plain(ns[ns[target_dir].children[i]].name)])
       ELSE Effect(ns, cur, got.out)

\* ls that leaves the cursor in the directory it listed
LsEntering(ns, cur, args) ==
    LET got == GetTargetDir(ns, cur, args)
        target_dir == got.dir
    IN IF target_dir # NoNode
       THEN IF HasPermission(ns[target_dir], "r")
            THEN Effect(ns, target_dir, got.out \o
                    [i \in 1..Len(ns[target_dir].children) |->
                        Plain(ns[ns[target_dir].children[i]].name)])
            ELSE Effect(ns, cur, got.out \o
                    <<Line("ls: cannot open directory '{}': Permission denied",
                           ns[target_dir].name)>>)
       ELSE Effect(ns, cur, got.out)

\* VirtualFileSystem.ls
Ls(ns, cur, args) ==
    LET got == GetTargetDir(ns, cur, args)
        target_dir == got.dir
    IN IF target_dir # NoNode
       THEN IF HasPermission(ns[target_dir], "r")
            THEN Effect(ns, cur, got.out \o
                    [i \in 1..Len(ns[target_dir].children) |->
                        Plain(ns[ns[target_dir].children[i]].name)])
            ELSE Effect(ns, cur, got.out \o
                    <<Line("ls: cannot open directory '{}': Permission denied",
                           ns[target_dir].name)>>)
       ELSE Effect(ns, cur, got.out)

\* cd that enters a directory without testing its execute bit
CdUnchecked(ns, cur, args) ==
    IF args = <<>> THEN Effect(ns, ROOT, <<>>)
    ELSE
        LET target_dir == NavigatePath(ns, cur, args[1], FALSE) IN
        IF target_dir # NoNode /\ ns[target_dir].is_dir
        THEN Effect(ns, target_dir, <<>>)
        ELSE Effect(ns, cur, <<Line("cd: no such file or directory: {}", args[1])>>)

\* VirtualFileSystem.cd
Cd(ns, cur, args) ==
    IF args = <<>> THEN Effect(ns, ROOT, <<>>)
    ELSE
        LET target_dir == NavigatePath(ns, cur, args[1], FALSE) IN
        IF target_dir # NoNode /\ ns[target_dir].is_dir
        THEN IF HasPermission(ns[target_dir], "x")
             THEN Effect(ns, target_dir, <<>>)
             ELSE Effect(ns, cur, <<Line("cd: permission denied: {}", args[1])>>)
        ELSE Effect(ns, cur, <<Line("cd: no such file or directory: {}", args[1])>>)

\* the digits int(text, 8) accepts
OctalDigit(c) ==
    CASE c = "0" -> 0 [] c = "1" -> 1 [] c = "2" -> 2 [] c = "3" -> 3
      [] c = "4" -> 4 [] c = "5" -> 5 [] c = "6" -> 6 [] c = "7" -> 7
      [] OTHER -> -1

RECURSIVE OctalValue(_)
\* the value of a string of octal digits
OctalValue(text) ==
    IF text = <<>> THEN 0
    ELSE 8 * OctalValue(SubSeq(text, 1, Len(text) - 1)) + OctalDigit(text[Len(text)])

\* int(text, 8) for unsigned digit strings: ValueError is Raised
ParseOctal(text) ==
    IF text # <<>> /\ \A i \in 1..Len(text) : OctalDigit(text[i]) >= 0
    THEN Returned(OctalValue(text))
    ELSE Raised

\* chmod gated on the write bit of the target's parent (the gate of rm)
ChmodParentGated(ns, cur, args) ==
    IF Len(args) # 2 THEN Effect(ns, cur, <<Line("chmod: missing operand", <<>>)>>)
    ELSE
        LET mode == ParseOctal(args[1]) IN
        IF ~mode.ok
        THEN Effect(ns, cur, <<Line("chmod: invalid mode: '{}'", args[1])>>)
        ELSE
            LET target == NavigatePath(ns, cur, args[2], FALSE)
                parent == NavigatePath(ns, cur, args[2], TRUE)
            IN
            IF target # NoNode
            THEN IF HasPermission(ns[parent], "w")
                 THEN Effect([ns EXCEPT ![target].permissions = mode.value],
                             cur, <<>>)
                 ELSE Effect(ns, cur,
                        <<Line("chmod: cannot change permissions of '{}': Permission denied",
                               args[2])>>)
            ELSE Effect(ns, cur,
                    <<Line("chmod: cannot access '{}': No such file or directory",
                           args[2])>>)

\* chmod that sets the mode of every node bearing the target's name
ChmodByName(ns, cur, args) ==
    IF Len(args) # 2 THEN Effect(ns, cur, <<Line("chmod: missing operand", <<>>)>>)
    ELSE
        LET mode == ParseOctal(args[1]) IN
        IF ~mode.ok
        THEN Effect(ns, cur, <<Line("chmod: invalid mode: '{}'", args[1])>>)
        ELSE
            LET target == NavigatePath(ns, cur, args[2], FALSE) IN
            IF target # NoNode
            THEN IF HasPermission(ns[target], "w")
                 THEN Effect([n \in DOMAIN ns |->
                                IF ns[n].name = ns[target].name
                                THEN [ns[n] EXCEPT !.permissions = mode.value]
                                ELSE ns[n]],
                             cur, <<>>)
                 ELSE Effect(ns, cur,
                        <<Line("chmod: cannot change permissions of '{}': Permission denied",
                               args[2])>>)
            ELSE Effect(ns, cur,
                    <<Line("chmod: cannot access '{}': No such file or directory",
                           args[2])>>)

\* VirtualFileSystem.chmod
Chmod(ns, cur, args) ==
    IF Len(args) # 2 THEN Effect(ns, cur, <<Line("chmod: missing operand", <<>>)>>)
    ELSE
        LET mode == ParseOctal(args[1]) IN
        IF ~mode.ok
        THEN Effect(ns, cur, <<Line("chmod: invalid mode: '{}'", args[1])>>)
        ELSE
            LET target == NavigatePath(ns, cur, args[2], FALSE) IN
            IF target # NoNode
            THEN IF HasPermission(ns[target], "w")
                 THEN Effect([ns EXCEPT ![target].permissions = mode.value],
                             cur, <<>>)
                 ELSE Effect(ns, cur,
                        <<Line("chmod: cannot change permissions of '{}': Permission denied",
                               args[2])>>)
            ELSE Effect(ns, cur,
                    <<Line("chmod: cannot access '{}': No such file or directory",
                           args[2])>>)

\* `del d.children[name]`
DelChild(ns, d, name) ==
    LET kept == {i \in 1..Len(ns[d].children) : ns[ns[d].children[i]].name # name}
        pos(k) == CHOOSE i \in kept : Cardinality({j \in kept : j < i}) = k - 1
    IN [ns EXCEPT ![d].children =
            [k \in 1..Cardinality(kept) |-> ns[d].children[pos(k)]]]

\* rm gated on the write bit of the target (the gate of chmod)
RmTargetGated(ns, cur, args) ==
    IF args = <<>> THEN Effect(ns, cur, <<Line("rm: missing operand", <<>>)>>)
    ELSE
        LET target_path == args[1]
            target_name == Basename(target_path)
            target_parent == NavigatePath(ns, cur, target_path, TRUE)
        IN IF target_parent = NoNode
           THEN Effect(ns, cur,
                    <<Line("rm: cannot remove '{}': No such file or directory",
                           target_path)>>)
           ELSE IF HasChild(ns, target_parent, target_name)
           THEN IF HasPermission(ns[Child(ns, target_parent, target_name)], "w")
                THEN Effect(DelChild(ns, target_parent, target_name), cur, <<>>)
                ELSE Effect(ns, cur,
                        <<Line("rm: cannot remove '{}': Permission denied",
                               target_path)>>)
           ELSE Effect(ns, cur,
                    <<Line("rm: cannot remove '{}': No such file or directory",
                           target_path)>>)

\* rm that asks for no permission
RmUngated(ns, cur, args) ==
    IF args = <<>> THEN Effect(ns, cur, <<Line("rm: missing operand", <<>>)>>)
    ELSE
        LET target_path == args[1]
            target_name == Basename(target_path)
            target_parent == NavigatePath(ns, cur, target_path, TRUE)
        IN IF target_parent = NoNode
           THEN Effect(ns, cur,
                    <<Line("rm: cannot remove '{}': No such file or directory",
                           target_path)>>)
           ELSE IF HasChild(ns, target_parent, target_name)
           THEN Effect(DelChild(ns, target_parent, target_name), cur, <<>>)
           ELSE Effect(ns, cur,
                    <<Line("rm: cannot remove '{}': No such file or directory",
                           target_path)>>)

\* VirtualFileSystem.rm
Rm(ns, cur, args) ==
    IF args = <<>> THEN Effect(ns, cur, <<Line("rm: missing operand", <<>>)>>)
    ELSE
        LET target_path == args[1]
            target_name == Basename(target_path)
            target_parent == NavigatePath(ns, cur, target_path, TRUE)
        IN IF target_parent = NoNode
           THEN Effect(ns, cur,
                    <<Line("rm: cannot remove '{}': No such file or directory",
                           target_path)>>)
           ELSE IF HasChild(ns, target_parent, target_name)
           THEN IF HasPermission(ns[target_parent], "w")
                THEN Effect(DelChild(ns, target_parent, target_name), cur, <<>>)
                ELSE Effect(ns, cur,
                        <<Line("rm: cannot remove '{}': Permission denied",
                               target_path)>>)
           ELSE Effect(ns, cur,
                    <<Line("rm: cannot remove '{}': No such file or directory",
                           target_path)>>)

FindDenied(path) == Line("find: cannot access '{}': Permission denied", path)

RECURSIVE ListRecursive(_, _, _), ListItems(_, _, _, _)
\* the listing loop that does not descend into the directories it lists
ListItemsFlat(ns, current_dir, current_path, i) ==
    IF i > Len(ns[current_dir].children) THEN <<>>
    ELSE
        LET item == ns[current_dir].children[i]
            item_path == PathJoin(current_path, ns[item].name)
        IN (IF HasPermission(ns[item], "r") THEN <<Plain(item_path)>>
            ELSE <<FindDenied(item_path)>>)
           \o ListItems(ns, current_dir, current_path, i + 1)

\* the loop of _list_recursive over current_dir.children.items(), from position i
ListItems(ns, current_dir, current_path, i) ==
    IF i > Len(ns[current_dir].children) THEN <<>>
    ELSE
        LET item == ns[current_dir].children[i]
            item_path == PathJoin(current_path, ns[item].name)
        IN (IF HasPermission(ns[item], "r") THEN <<Plain(item_path)>>
            ELSE <<FindDenied(item_path)>>)
           \o (IF ns[item].is_dir THEN ListRecursive(ns, item, item_path) ELSE <<>>)
           \o ListItems(ns, current_dir, current_path, i + 1)

\* VirtualFileSystem._list_recursive
ListRecursive(ns, current_dir, current_path) ==
    IF ~HasPermission(ns[current_dir], "x") THEN <<FindDenied(current_path)>>
    ELSE ListItems(ns, current_dir, current_path, 1)

RECURSIVE FindRecursive(_, _, _, _), FindItems(_, _, _, _, _)
\* the search loop that returns at the first directory it may not enter
FindItemsStopAtDenied(ns, current_dir, search_term, current_path, i) ==
    IF i > Len(ns[current_dir].children) THEN <<>>
    ELSE
        LET item == ns[current_dir].children[i]
            name == ns[item].name
            item_path == PathJoin(current_path, name)
        IN IF ns[item].is_dir /\ ~HasPermission(ns[item], "x")
           THEN <<FindDenied(item_path)>>
           ELSE
           (IF search_term = name
            THEN IF HasPermission(ns[item], "r")
                 THEN <<Plain(item_path)>>
                      \o (IF ns[item].is_dir
                          THEN ListRecursive(ns, item, item_path) ELSE <<>>)
                 ELSE <<FindDenied(item_path)>>
            ELSE IF ns[item].is_dir
                 THEN FindRecursive(ns, item, search_term, item_path)
                 ELSE <<>>)
           \o FindItems(ns, current_dir, search_term, current_path, i + 1)

\* the loop of _find_recursive over current_dir.children.items(), from position i
FindItems(ns, current_dir, search_term, current_path, i) ==
    IF i > Len(ns[current_dir].children) THEN <<>>
    ELSE
        LET item == ns[current_dir].children[i]
            name == ns[item].name
            item_path == PathJoin(current_path, name)
        IN (IF search_term = name
            THEN IF HasPermission(ns[item], "r")
                 THEN <<Plain(item_path)>>
                      \o (IF ns[item].is_dir
                          THEN ListRecursive(ns, item, item_path) ELSE <<>>)
                 ELSE <<FindDenied(item_path)>>
            ELSE IF ns[item].is_dir
                 THEN FindRecursive(ns, item, search_term, item_path)
                 ELSE <<>>)
           \o FindItems(ns, current_dir, search_term, current_path, i + 1)

\* VirtualFileSystem._find_recursive
FindRecursive(ns, current_dir, search_term, current_path) ==
    IF ~HasPermission(ns[current_dir], "x") THEN <<FindDenied(current_path)>>
    ELSE FindItems(ns, current_dir, search_term, current_path, 1)

\* VirtualFileSystem.find
Find(ns, cur, args) ==
    LET search_term == IF args # <<>> THEN args[1] ELSE <<>> IN
    Effect(ns, cur, FindRecursive(ns, cur, search_term, <<".">>))

-----------------------------------------------------------------------------
(* Reclaiming detached objects: a VirtualFile stays alive only while it is *)
(* referenced from fs.root or fs.cwd, directly or through children.        *)

RECURSIVE Reach(_, _)
\* the objects referenced from object d
Reach(ns, d) ==
    IF d = NoNode THEN {}
    ELSE {d} \cup UNION {Reach(ns, c) : c \in ChildSet(ns, d)}

\* the heap after garbage collection
Collect(ns, cur) ==
    [i \in Reach(ns, ROOT) \cup Reach(ns, cur) |-> ns[i]]

-----------------------------------------------------------------------------
(* Inputs *)

MaxPathLen == 3
MaxRecords == 2

PathChars == {"/", ".", "a"}

RECURSIVE StringsUpTo(_, _)
\* every string over `chars` of length at most n
StringsUpTo(chars, n) ==
    IF n = 0 THEN {<<>>}
    ELSE LET shorter == StringsUpTo(chars, n - 1) IN
         shorter \cup {Append(s, c) : s \in shorter, c \in chars}

PathArgs == StringsUpTo(PathChars, MaxPathLen)

ModeArgs == {<<"1", "5", "0", "0">>, <<"2", "0", "0">>}

BadModeArgs == {<<"5", "8">>, <<>>}

FindTerms == {<<"a">>, <<"a", "a">>, <<".">>}

NoCmd == [name |-> "", args |-> <<>>]

CommandLine(name, args) == [name |-> name, args |-> args]

TerminalLines ==
    { CommandLine("ls", <<>>),
      CommandLine("cd", << <<"a">> >>),
      CommandLine("cd", << <<".", ".">> >>),
      CommandLine("chmod", << <<"2", "0", "0">>, <<".">> >>),
      CommandLine("rm", << <<"/", "a">> >>),
      CommandLine("find", << <<"a">> >>) }

\* the archives a session runs on: a directory a holding a directory a, and
\* a file aa next to it; and an archive with no entry for the directory a of
\* its file a/aa and its directory a/a
SessionArchives ==
    { << ZipInfo(<<"a", "/">>, <<16877, 16>>),       \* 0o40755 << 16 | 0x10
         ZipInfo(<<"a", "/", "a", "/">>, <<16877, 16>>),
         ZipInfo(<<"a", "a">>, <<33188, 0>>) >>,     \* 0o100644 << 16
      << ZipInfo(<<"a", "/", "a", "a">>, <<33188, 0>>),
         ZipInfo(<<"a", "/", "a", "/">>, <<16877, 16>>) >> }

-----------------------------------------------------------------------------
(* The process: main() builds the tree, runs the optional startup script   *)
(* and then the interactive loop.                                          *)
(*   "script"      run_script is about to read a line                      *)
(*   "script_ran"  run_script has executed a line (cmd, out)               *)
(*   "prompt"      run is about to build the prompt                        *)
(*   "input"       run has printed the prompt and waits for a line         *)
(*   "exited"      sys.exit(0), or end of input                            *)
(*   "aborted"     an exception escaped                                    *)

Init ==
    /\ archive \in SessionArchives
    /\ pending = <<>>
    /\ nodes = LoadZip(archive)
    /\ cwd = ROOT
    /\ pc = "script"
    /\ cmd = NoCmd
    /\ out = <<>>

\* ShellEmulator.execute_command on a line whose tokens are <<name>> \o args
Execute(name, args) ==
    CASE name = "ls" -> Ls(nodes, cwd, args)
      [] name = "cd" -> Cd(nodes, cwd, args)
      [] name = "chmod" -> Chmod(nodes, cwd, args)
      [] name = "rm" -> Rm(nodes, cwd, args)
      [] name = "find" -> Find(nodes, cwd, args)
      [] OTHER -> Effect(nodes, cwd, <<Line("{}: command not found", name)>>)

\* one line read and executed, by run_script or by run
Run(name, args) ==
    /\ pc \in {"script", "input"}
    /\ LET e == Execute(name, args) IN
        /\ nodes' = Collect(e.nodes, e.cwd)
        /\ cwd' = e.cwd
        /\ out' = e.out
    /\ cmd' = CommandLine(name, args)
    /\ pc' = IF pc = "script" THEN "script_ran" ELSE "prompt"
    /\ UNCHANGED <<pending, archive>>

\* the lines of the startup script
ScriptLs ==
    /\ pc = "script"
    /\ \E args \in {<<>>} \cup {<<p>> : p \in PathArgs} : Run("ls", args)

ScriptCd ==
    /\ pc = "script"
    /\ \E args \in {<<>>} \cup {<<p>> : p \in PathArgs} : Run("cd", args)

ScriptChmod ==
    /\ pc = "script"
    /\ \E args \in {<<>>} \cup {<<m, p>> : m \in ModeArgs, p \in PathArgs}
                   \cup {<<m, <<"a">> >> : m \in BadModeArgs} :
            Run("chmod", args)

ScriptRm ==
    /\ pc = "script"
    /\ \E args \in {<<>>} \cup {<<p>> : p \in PathArgs} : Run("rm", args)

ScriptFind ==
    /\ pc = "script"
    /\ \E args \in {<<>>} \cup {<<t>> : t \in FindTerms} : Run("find", args)

ScriptUnknown == pc = "script" /\ Run("pwd", <<>>)

\* the lines typed at the prompt
Typed == pc = "input" /\ \E line \in TerminalLines : Run(line.name, line.args)

\* VirtualFileSystem.exit
DoExit ==
    /\ pc \in {"script", "input"}
    /\ pc' = "exited"
    /\ cmd' = CommandLine("exit", <<>>)
    /\ out' = <<>>
    /\ UNCHANGED <<nodes, cwd, pending, archive>>

\* run_script goes on to the next line
NextLine ==
    /\ pc = "script_ran"
    /\ pc' = "script"
    /\ cmd' = NoCmd
    /\ out' = <<>>
    /\ UNCHANGED <<nodes, cwd, pending, archive>>

\* run_script is done (or there is no script): main calls run
EndScript ==
    /\ pc = "script"
    /\ pc' = "prompt"
    /\ UNCHANGED <<nodes, cwd, pending, archive, cmd, out>>

\* ShellEmulator.prompt, printed by input()
Prompt ==
    /\ pc = "prompt"
    /\ LET path == GetPath(nodes, cwd) IN
        IF path.ok
        THEN /\ pc' = "input"
             /\ out' = <<Line("{}@{}:{}$ ", path.value)>>
        ELSE /\ pc' = "aborted"
             /\ out' = <<Line("AttributeError", <<>>)>>
    /\ cmd' = NoCmd
    /\ UNCHANGED <<nodes, cwd, pending, archive>>

\* input() raises EOFError: run breaks out of its loop
Eof ==
    /\ pc = "input"
    /\ pc' = "exited"
    /\ cmd' = NoCmd
    /\ out' = <<>>
    /\ UNCHANGED <<nodes, cwd, pending, archive>>

Next ==
    \/ ScriptLs
    \/ ScriptCd
    \/ ScriptChmod
    \/ ScriptRm
    \/ ScriptFind
    \/ ScriptUnknown
    \/ Typed
    \/ DoExit
    \/ NextLine
    \/ EndScript
    \/ Prompt
    \/ Eof

Spec == Init /\ [][Next]_vars

-----------------------------------------------------------------------------
(* Searching: sessions of cd, chmod and find over archives whose entries   *)
(* carry every combination of read and execute bits.                       *)

\* the high half of external_attr of a directory entry with mode bits p
DirAttr(p) == <<16384 + p, 16>>      \* (0o40000 | p) << 16 | 0x10

\* the high half of external_attr of a file entry with mode bits p
FileAttr(p) == <<32768 + p, 0>>      \* (0o100000 | p) << 16

DirModes == {493, 429, 237, 173}     \* 0o755, 0o655, 0o355, 0o255

FileModes == {420, 164}              \* 0o644, 0o244

\* b/ b/a a/ a/b/ a/b/a; the same without the entry a/b/; the files alone
SearchArchives ==
    { << ZipInfo(<<"b", "/">>, DirAttr(p1)),
         ZipInfo(<<"b", "/", "a">>, FileAttr(q1)),
         ZipInfo(<<"a", "/">>, DirAttr(p2)),
         ZipInfo(<<"a", "/", "b", "/">>, DirAttr(p3)),
         ZipInfo(<<"a", "/", "b", "/", "a">>, FileAttr(q2)) >> :
        p1 \in DirModes, p2 \in DirModes, p3 \in DirModes,
        q1 \in FileModes, q2 \in FileModes }
    \cup
    { << ZipInfo(<<"b", "/">>, DirAttr(p1)),
         ZipInfo(<<"b", "/", "a">>, FileAttr(q1)),
         ZipInfo(<<"a", "/">>, DirAttr(p2)),
         ZipInfo(<<"a", "/", "b", "/", "a">>, FileAttr(q2)) >> :
        p1 \in DirModes, p2 \in DirModes,
        q1 \in FileModes, q2 \in FileModes }
    \cup
    { << ZipInfo(<<"b", "/", "a">>, FileAttr(q1)),
         ZipInfo(<<"a", "/", "b", "/", "a">>, FileAttr(q2)) >> :
        q1 \in FileModes, q2 \in FileModes }

SearchPaths == {<<"a">>, <<"b">>, <<"a", "/", "b">>, <<".", ".">>}

SearchTerms == {<<"a">>, <<"b">>, <<"a", "b">>}

InitSearch ==
    /\ archive \in SearchArchives
    /\ pending = <<>>
    /\ nodes = LoadZip(archive)
    /\ cwd = ROOT
    /\ pc = "script"
    /\ cmd = NoCmd
    /\ out = <<>>

SearchCd ==
    /\ pc = "script"
    /\ \E args \in {<<>>} \cup {<<p>> : p \in SearchPaths} : Run("cd", args)

SearchChmod == pc = "script" /\ Run("chmod", << <<"6", "0", "0">>, <<".">> >>)

SearchFind ==
    /\ pc = "script"
    /\ \E args \in {<<>>} \cup {<<t>> : t \in SearchTerms} : Run("find", args)

NextSearch ==
    \/ SearchCd
    \/ SearchChmod
    \/ SearchFind
    \/ NextLine
    \/ EndScript
    \/ Prompt
    \/ Eof

SpecSearch == InitSearch /\ [][NextSearch]_vars

-----------------------------------------------------------------------------
(* Building: VirtualFileSystem.__init__ on every archive of at most        *)
(* MaxRecords entries.                                                     *)

BuildNames ==
    { <<"a">>, <<"a", "/">>, <<"b">>, <<"a", "/", "b">>, <<"a", "/", "b", "/">>,
      <<"a", "/", "a">>, <<"b", "/">>, <<"b", "/", "a">> }

BuildAttrs == { <<0, 32>>, FileAttr(420), DirAttr(365), <<16384, 16>> }

BuildEntries == {ZipInfo(f, x) : f \in BuildNames, x \in BuildAttrs}

RECURSIVE SeqsUpTo(_, _)
\* every sequence over S of length at most n
SeqsUpTo(S, n) ==
    IF n = 0 THEN {<<>>}
    ELSE LET shorter == SeqsUpTo(S, n - 1) IN
         shorter \cup {Append(q, e) : q \in shorter, e \in S}

InitBuild ==
    /\ archive \in SeqsUpTo(BuildEntries, MaxRecords)
    /\ pending = archive
    /\ nodes = EmptyTree
    /\ cwd = NoNode
    /\ pc = "load"
    /\ cmd = NoCmd
    /\ out = <<>>

\* one iteration of the loop of load_zip
LoadStep ==
    /\ pc = "load"
    /\ pending # <<>>
    /\ nodes' = LoadEntry(nodes, Head(pending))
    /\ pending' = Tail(pending)
    /\ UNCHANGED <<cwd, archive, pc, cmd, out>>

\* load_zip returns and __init__ sets the cursor to the root
Loaded ==
    /\ pc = "load"
    /\ pending = <<>>
    /\ cwd' = ROOT
    /\ pc' = "script"
    /\ UNCHANGED <<nodes, pending, archive, cmd, out>>

NextBuild == LoadStep \/ Loaded

SpecBuild == InitBuild /\ [][NextBuild]_vars

-----------------------------------------------------------------------------
(* Properties *)

\* the step that executes a command line whose first token is `name`
Executes(name) ==
    /\ pc \in {"script", "input"}
    /\ pc' \in {"script_ran", "prompt"}
    /\ cmd'.name = name

\* the state right after a command line whose first token is `name` ran
Ran(name) == pc \in {"script_ran", "prompt"} /\ cmd.name = name

\* the bit is set in the mode of node n of heap ns
BitSet(ns, n, bit) == (ns[n].permissions \div bit) % 2 = 1

\* the nodes whose children mapping holds n
Parents(ns, n) == {p \in DOMAIN ns : n \in ChildSet(ns, p)}

\* C1: for every path that resolves to a node T and every mode text that
\* parses as octal to m, `chmod m path` makes T's permissions exactly m when T
\* has the write bit 0o200, and otherwise prints the permission-denied line
\* and leaves T's permissions as they were; the parent's bits play no part.
ChmodGatedOnTarget ==
    [][ (Executes("chmod") /\ Len(cmd'.args) = 2 /\ ParseOctal(cmd'.args[1]).ok) =>
        LET m == ParseOctal(cmd'.args[1]).value
            T == NavigatePath(nodes, cwd, cmd'.args[2], FALSE)
        IN T # NoNode =>
            IF BitSet(nodes, T, 128)
            THEN nodes'[T].permissions = m /\ out' = <<>>
            ELSE /\ nodes'[T].permissions = nodes[T].permissions
                 /\ out' = <<Line("chmod: cannot change permissions of '{}': Permission denied",
                                  cmd'.args[2])>> ]_vars

\* C1 witness: a chmod went through on a node whose parent has no write bit,
\* and gave the node a mode with a bit above 0o777
ChmodGatedOnTargetWitness ==
    /\ Ran("chmod") /\ Len(cmd.args) = 2 /\ out = <<>>
    /\ LET T == NavigatePath(nodes, cwd, cmd.args[2], FALSE) IN
        /\ T # NoNode
        /\ nodes[T].permissions = 832
        /\ \E P \in Parents(nodes, T) : ~BitSet(nodes, P, 128)

\* the last segment of a path: what follows its last separator
LastSegment(path) == LET parts == Split(path) IN parts[Len(parts)]

\* sequence q without its element at position k
Without(q, k) == SubSeq(q, 1, k - 1) \o SubSeq(q, k + 1, Len(q))

\* C2: when the parent of the path resolves to P, `rm path` removes the child
\* of P named by the last segment (and with it its subtree) if P has the write
\* bit; prints permission denied and leaves the tree as it was if P has not,
\* whatever the child's own write bit; and prints no such file or directory,
\* leaving the tree as it was, if P has no child of that name.
RmGatedOnParent ==
    [][ (Executes("rm") /\ cmd'.args # <<>>) =>
        LET path == cmd'.args[1]
            P == NavigatePath(nodes, cwd, path, TRUE)
            kids == IF P = NoNode THEN <<>> ELSE nodes[P].children
            named == {k \in 1..Len(kids) : nodes[kids[k]].name = LastSegment(path)}
        IN P # NoNode =>
            IF named = {}
            THEN /\ nodes' = nodes
                 /\ out' = <<Line("rm: cannot remove '{}': No such file or directory",
                                  path)>>
            ELSE IF BitSet(nodes, P, 128)
            THEN /\ \E k \in named : nodes'[P].children = Without(kids, k)
                 /\ \A n \in DOMAIN nodes' :
                        /\ n \in DOMAIN nodes
                        /\ n # P => nodes'[n] = nodes[n]
                        /\ [nodes'[n] EXCEPT !.children = <<>>]
                            = [nodes[n] EXCEPT !.children = <<>>]
                 /\ out' = <<>>
            ELSE /\ nodes' = nodes
                 /\ out' = <<Line("rm: cannot remove '{}': Permission denied", path)>> ]_vars

\* C2 witness: rm was denied on an entry that has the write bit itself
RmGatedOnParentWitness ==
    /\ Ran("rm") /\ cmd.args # <<>>
    /\ out = <<Line("rm: cannot remove '{}': Permission denied", cmd.args[1])>>
    /\ LET P == NavigatePath(nodes, cwd, cmd.args[1], TRUE) IN
        /\ P # NoNode
        /\ \E c \in ChildSet(nodes, P) :
            nodes[c].name = LastSegment(cmd.args[1]) /\ BitSet(nodes, c, 128)

\* C3: once the tree is built, the cursor is a directory node that can be
\* reached from the root.
CursorInTree ==
    pc # "load" => cwd \in Reach(nodes, ROOT) /\ nodes[cwd].is_dir

RECURSIVE DirReach(_, _)
\* the nodes reached from d by descending through directory nodes only
DirReach(ns, d) ==
    {d} \cup (IF ns[d].is_dir
              THEN UNION {DirReach(ns, c) : c \in ChildSet(ns, d)} ELSE {})

DotDot == <<".", ".">>

\* C4 as stated, for a cursor that is in the tree below directories only:
\* `cd ..` at the root leaves the cursor at the root, and at another node it
\* moves the cursor to that node's parent, whatever the permission bits.
CdDotDotReachesParent ==
    [][ (Executes("cd") /\ cmd'.args = <<DotDot>> /\ cwd \in DirReach(nodes, ROOT)) =>
        IF cwd = ROOT THEN cwd' = ROOT ELSE cwd' \in Parents(nodes, cwd) ]_vars

\* the target of '..' from node n: its parent, or the root when n is the root
\* or has no parent that the root reaches through directories
UpFrom(ns, n) ==
    LET found == Parents(ns, n) \cap {p \in DirReach(ns, ROOT) : ns[p].is_dir} IN
    IF found = {} THEN ROOT ELSE CHOOSE p \in found : TRUE

\* C4 amended: `cd ..` at the root leaves the cursor at the root; at another
\* node it moves the cursor to the node's parent (to the root when no parent
\* is found) if that directory has the execute bit 0o100, and otherwise
\* prints permission denied and leaves the cursor where it was.
CdDotDotGated ==
    [][ (Executes("cd") /\ cmd'.args = <<DotDot>>) =>
        LET T == UpFrom(nodes, cwd) IN
        /\ cwd = ROOT => cwd' = ROOT
        /\ IF BitSet(nodes, T, 64)
           THEN cwd' = T /\ out' = <<>>
           ELSE cwd' = cwd /\ out' = <<Line("cd: permission denied: {}", DotDot)>> ]_vars

\* C4 witness: `cd ..` was denied below a parent without the execute bit
CdDotDotGatedWitness ==
    /\ Ran("cd") /\ cmd.args = <<DotDot>>
    /\ out = <<Line("cd: permission denied: {}", DotDot)>>
    /\ cwd # ROOT
    /\ \E P \in Parents(nodes, cwd) : ~BitSet(nodes, P, 64)

\* C5: `cd path` moves the cursor to the node the path resolves to when that
\* node is a directory with the execute bit 0o100 and prints nothing; when the
\* path does not resolve or resolves to a non-directory it prints no such
\* file or directory, when it resolves to a directory without the execute bit
\* it prints permission denied, and in both cases cursor and tree stay.
CdGatedOnExecute ==
    [][ (Executes("cd") /\ cmd'.args # <<>>) =>
        LET path == cmd'.args[1]
            T == NavigatePath(nodes, cwd, path, FALSE)
        IN IF T # NoNode /\ nodes[T].is_dir /\ BitSet(nodes, T, 64)
           THEN cwd' = T /\ out' = <<>>
           ELSE /\ cwd' = cwd
                /\ nodes' = nodes
                /\ out' = IF T # NoNode /\ nodes[T].is_dir
                          THEN <<Line("cd: permission denied: {}", path)>>
                          ELSE <<Line("cd: no such file or directory: {}", path)>> ]_vars

\* C5 witness: cd to a directory below the cursor was denied for want of the
\* execute bit
CdGatedOnExecuteWitness ==
    /\ Ran("cd") /\ cmd.args # <<>>
    /\ out = <<Line("cd: permission denied: {}", cmd.args[1])>>
    /\ LET T == NavigatePath(nodes, cwd, cmd.args[1], FALSE) IN
        T # NoNode /\ T # cwd /\ nodes[T].is_dir /\ ~BitSet(nodes, T, 64)

\* C10: ls prints one of three things: no such file or directory for an
\* argument that does not resolve to a directory; else one permission-denied
\* line naming the directory (the cursor when there is no argument) when it
\* lacks the read bit 0o400; else the name of each direct child once, in the
\* order of the children mapping, and nothing else.
LsOutcomes ==
    Ran("ls") =>
        LET D == IF cmd.args = <<>> THEN cwd
                 ELSE NavigatePath(nodes, cwd, cmd.args[1], FALSE)
        IN IF cmd.args # <<>> /\ (D = NoNode \/ ~nodes[D].is_dir)
           THEN out = <<Line("ls: cannot access '{}': No such file or directory",
                             cmd.args[1])>>
           ELSE IF ~BitSet(nodes, D, 256)
           THEN out = <<Line("ls: cannot open directory '{}': Permission denied",
                             nodes[D].name)>>
           ELSE /\ Len(out) = Len(nodes[D].children)
                /\ \A i \in 1..Len(out) :
                    out[i] = Plain(nodes[nodes[D].children[i]].name)

\* C10 witness: ls of a directory was denied for want of the read bit, and
\* the directory has children it did not list
LsOutcomesWitness ==
    /\ Ran("ls") /\ cmd.args # <<>>
    /\ LET D == NavigatePath(nodes, cwd, cmd.args[1], FALSE) IN
        /\ D # NoNode /\ nodes[D].is_dir /\ nodes[D].children # <<>>
        /\ out = <<Line("ls: cannot open directory '{}': Permission denied",
                        nodes[D].name)>>

RECURSIVE Below(_, _)
\* the chains <<d, child of d, ..., e>> of the nodes e at or below d
Below(ns, d) ==
    {<<d>>} \cup UNION { {<<d>> \o ch : ch \in Below(ns, c)} : c \in ChildSet(ns, d) }

RECURSIVE RelPath(_, _)
\* the path of the last node of a chain relative to its first: '.' followed
\* by '/' and a name for each further node
RelPath(ns, ch) ==
    IF Len(ch) = 1 THEN <<".">>
    ELSE RelPath(ns, SubSeq(ch, 1, Len(ch) - 1)) \o <<"/">> \o ns[ch[Len(ch)]].name

\* how many of the lines are l
Count(lines, l) == Cardinality({i \in 1..Len(lines) : lines[i] = l})

\* how many of the lines are about the path p
CountAbout(lines, p) == Cardinality({i \in 1..Len(lines) : lines[i].arg = p})

\* the term of the find that ran
Term == IF cmd.args = <<>> THEN <<>> ELSE cmd.args[1]

\* the nodes ch[i..j] are directories with the execute bit
Enterable(ns, ch, i, j) ==
    \A k \in i..j : ns[ch[k]].is_dir /\ BitSet(ns, ch[k], 64)

\* the k-th node of the chain is the first below the start that is named term
FirstNamed(ns, ch, k, term) ==
    /\ k \in 2..Len(ch)
    /\ ns[ch[k]].name = term
    /\ \A j \in 2..(k - 1) : ns[ch[j]].name # term

\* the traversal of find comes to the last node of the chain: it has entered
\* every node above it, none of which it found named term and unreadable
Encountered(ns, ch, term) ==
    /\ Enterable(ns, ch, 1, Len(ch) - 1)
    /\ \A k \in 2..(Len(ch) - 1) :
        FirstNamed(ns, ch, k, term) => BitSet(ns, ch[k], 256)

\* chain lo goes on below the last node of chain ch
Extends(lo, ch) == Len(lo) > Len(ch) /\ SubSeq(lo, 1, Len(ch)) = ch

\* no node that is not a directory has children
OnlyDirectoriesHaveChildren ==
    \A n \in DOMAIN nodes : nodes[n].children # <<>> => nodes[n].is_dir

\* C6, in a tree where only directories have children: every directory
\* without the execute bit that a find comes to yields exactly one
\* permission-denied line for its path, whatever its read bit, and no line at
\* all for any entry beneath it.
FindDeniesOnce ==
    (Ran("find") /\ OnlyDirectoriesHaveChildren) =>
        \A ch \in Below(nodes, cwd) :
            LET D == ch[Len(ch)] IN
            (nodes[D].is_dir /\ ~BitSet(nodes, D, 64) /\ Encountered(nodes, ch, Term)) =>
                /\ Count(out, FindDenied(RelPath(nodes, ch))) = 1
                /\ \A lo \in Below(nodes, cwd) :
                    Extends(lo, ch) => CountAbout(out, RelPath(nodes, lo)) = 0

\* find matched the k-th node of the chain: a readable directory named term
\* that the search came to
Matched(ns, ch, k, term) ==
    /\ FirstNamed(ns, ch, k, term)
    /\ Enterable(ns, ch, 1, k - 1)
    /\ ns[ch[k]].is_dir
    /\ BitSet(ns, ch[k], 256)

\* C7 as stated, in a tree where only directories have children: when find
\* matches a readable directory, every descendant of it, at any depth, is
\* reported by exactly one line: its relative path if it has the read bit, a
\* permission-denied line for its path if it has not.
FindListsEveryDescendant ==
    (Ran("find") /\ OnlyDirectoriesHaveChildren) =>
        \A ch \in Below(nodes, cwd) : \A k \in 2..(Len(ch) - 1) :
            Matched(nodes, ch, k, Term) =>
                LET E == ch[Len(ch)]
                    p == RelPath(nodes, ch)
                IN /\ CountAbout(out, p) = 1
                   /\ Count(out, IF BitSet(nodes, E, 256) THEN Plain(p)
                                 ELSE FindDenied(p)) = 1

\* C7 amended: when find matches a readable directory M, a descendant of M
\* whose ancestors from M down to its parent are all directories with the
\* execute bit is reported: by exactly one line giving its relative path if
\* it has the read bit, and otherwise by a permission-denied line for its
\* path and no line giving the path; a descendant with an ancestor, from M
\* down, that is not a directory with the execute bit is not reported at all.
FindListsEnterableDescendants ==
    Ran("find") =>
        \A ch \in Below(nodes, cwd) : \A k \in 2..(Len(ch) - 1) :
            Matched(nodes, ch, k, Term) =>
                LET E == ch[Len(ch)]
                    p == RelPath(nodes, ch)
                IN IF Enterable(nodes, ch, k, Len(ch) - 1)
                   THEN IF BitSet(nodes, E, 256)
                        THEN Count(out, Plain(p)) = 1
                        ELSE Count(out, Plain(p)) = 0 /\ Count(out, FindDenied(p)) >= 1
                   ELSE CountAbout(out, p) = 0

\* C7 witness: find matched a directory and reported an unreadable entry two
\* levels below it by a permission-denied line
FindListsEnterableDescendantsWitness ==
    /\ Ran("find")
    /\ \E ch \in Below(nodes, cwd) :
        /\ Len(ch) >= 4
        /\ Matched(nodes, ch, 2, Term)
        /\ Enterable(nodes, ch, 2, Len(ch) - 1)
        /\ ~BitSet(nodes, ch[Len(ch)], 256)
        /\ Count(out, FindDenied(RelPath(nodes, ch))) = 1

\* C8: find reports every entry named term below the cursor when the cursor
\* and every node between it and the entry are directories with the execute
\* bit, none of them below the cursor named term: by its relative path if the
\* entry has the read bit, by a permission-denied line for that path if not.
FindReportsEveryMatch ==
    Ran("find") =>
        \A ch \in Below(nodes, cwd) :
            (FirstNamed(nodes, ch, Len(ch), Term) /\ Enterable(nodes, ch, 1, Len(ch) - 1)) =>
                LET p == RelPath(nodes, ch) IN
                Count(out, IF BitSet(nodes, ch[Len(ch)], 256) THEN Plain(p)
                           ELSE FindDenied(p)) >= 1

\* C8 witness: find printed the path of an entry two levels below the cursor
\* after a permission-denied line for a sibling directory, earlier in the
\* children order, that has no execute bit
FindReportsEveryMatchWitness ==
    /\ Ran("find")
    /\ \E ch \in Below(nodes, cwd) :
        /\ Len(ch) = 3
        /\ FirstNamed(nodes, ch, 3, Term)
        /\ \E i \in 1..Len(out), j \in 1..Len(out) :
            /\ i < j
            /\ out[j] = Plain(RelPath(nodes, ch))
            /\ \E sib \in ChildSet(nodes, cwd) :
                /\ sib # ch[2]
                /\ nodes[sib].is_dir /\ ~BitSet(nodes, sib, 64)
                /\ out[i] = FindDenied(RelPath(nodes, <<cwd, sib>>))

\* the segments of a supplied path: its non-empty pieces between separators
Segments(filename) == SelectSeq(Split(filename), LAMBDA part : part # <<>>)

\* the (path, is_directory) pairs of the non-root nodes, found by enumerating
\* children from the root; a path is the sequence of names below the root
TreePairs(ns) ==
    { << [i \in 1..(Len(ch) - 1) |-> ns[ch[i + 1]].name], ns[ch[Len(ch)]].is_dir >> :
        ch \in Below(ns, ROOT) \ {<<ROOT>>} }

\* the (path, declared is_directory) pairs of the records
RecordPairs(infolist) ==
    { <<Segments(infolist[i].filename), IsDirEntry(infolist[i])>> :
        i \in 1..Len(infolist) }

\* path p is path q or the path of an ancestor of q
IsPrefix(p, q) == Len(p) <= Len(q) /\ SubSeq(q, 1, Len(p)) = p

\* C9 as stated: the pairs of the built tree are exactly the pairs of the
\* records.
BuildRoundTrip == pc # "load" => TreePairs(nodes) = RecordPairs(archive)

\* C9 amended: the paths of the non-root nodes of the built tree are exactly
\* the supplied paths and their non-empty proper prefixes, and the node of a
\* record has the record's declared flag whenever no earlier record supplies
\* that path or a path below it.
BuildCoversRecords ==
    pc # "load" =>
        /\ {pair[1] : pair \in TreePairs(nodes)} =
            UNION { {SubSeq(r[1], 1, n) : n \in 1..Len(r[1])} :
                        r \in RecordPairs(archive) }
        /\ \A i \in 1..Len(archive) :
            (\A j \in 1..(i - 1) :
                ~IsPrefix(Segments(archive[i].filename), Segments(archive[j].filename)))
            => <<Segments(archive[i].filename), IsDirEntry(archive[i])>>
                    \in TreePairs(nodes)

\* C9 witness: a built tree with a node whose path no record supplies, and a
\* record whose declared flag is not the flag of the node at its path
BuildCoversRecordsWitness ==
    /\ pc # "load"
    /\ Len(archive) = MaxRecords
    /\ \E pair \in TreePairs(nodes) :
        pair[1] \notin {r[1] : r \in RecordPairs(archive)}
    /\ \E r \in RecordPairs(archive) : r \notin TreePairs(nodes)

RECURSIVE AbsPath(_, _)
\* the path of the last node of a chain that starts at the root: a separator
\* and a name for each node below the root, the separator alone for the root
AbsPath(ns, ch) ==
    IF Len(ch) = 1 THEN <<"/">>
    ELSE (IF Len(ch) = 2 THEN <<>> ELSE AbsPath(ns, SubSeq(ch, 1, Len(ch) - 1)))
         \o <<"/">> \o ns[ch[Len(ch)]].name

\* C11: for every node that the root reaches, path reconstruction returns the
\* separator-joined names on the way from the root down to it (the separator
\* alone for the root), and parent lookup returns the node whose children
\* mapping holds it (not-found for the root).
PathsAndParents ==
    pc # "load" =>
        \A ch \in Below(nodes, ROOT) :
            LET n == ch[Len(ch)] IN
            /\ GetPath(nodes, n) = Returned(AbsPath(nodes, ch))
            /\ FindParent(nodes, ROOT, n) =
                    IF n = ROOT THEN NoNode ELSE ch[Len(ch) - 1]

\* C12: whatever commands have run, the prompt can be produced: path
\* reconstruction for the cursor returns a path that starts with the
\* separator, and the session never ends with an exception.
SessionContinues ==
    pc # "load" =>
        /\ pc # "aborted"
        /\ GetPath(nodes, cwd).ok
        /\ Head(GetPath(nodes, cwd).value) = "/"

\* the permission kinds of has_permission
Kinds == {"r", "w", "x"}

\* C13: a permission test depends on nothing but the mode of the tested node,
\* and chmod changes nothing but the mode of the node T its path resolves to:
\* the set of nodes, the permissions (and so every permission test) of every
\* node other than T, the name, the is_dir flag and the children of every
\* node, T included, and the cursor are as they were.
ChmodChangesOnlyTargetMode ==
    [][ Executes("chmod") =>
        LET T == IF Len(cmd'.args) = 2
                 THEN NavigatePath(nodes, cwd, cmd'.args[2], FALSE) ELSE NoNode
        IN /\ cwd' = cwd
           /\ DOMAIN nodes' = DOMAIN nodes
           /\ \A n \in DOMAIN nodes :
                /\ nodes'[n].name = nodes[n].name
                /\ nodes'[n].is_dir = nodes[n].is_dir
                /\ nodes'[n].children = nodes[n].children
                /\ n # T =>
                    /\ nodes'[n].permissions = nodes[n].permissions
                    /\ \A k \in Kinds :
                        HasPermission(nodes'[n], k) = HasPermission(nodes[n], k)
           /\ \A n1 \in DOMAIN nodes, n2 \in DOMAIN nodes' :
                nodes[n1].permissions = nodes'[n2].permissions =>
                    \A k \in Kinds :
                        HasPermission(nodes[n1], k) = HasPermission(nodes'[n2], k) ]_vars

\* C13 witness: a chmod went through and left its target with mode 0o200,
\* while another node of the same name kept a mode with the execute bit
ChmodChangesOnlyTargetModeWitness ==
    /\ Ran("chmod") /\ Len(cmd.args) = 2 /\ out = <<>>
    /\ LET T == NavigatePath(nodes, cwd, cmd.args[2], FALSE) IN
        /\ T # NoNode
        /\ nodes[T].permissions = 128
        /\ \E n \in DOMAIN nodes \ {T} :
            /\ nodes[n].name = nodes[T].name
            /\ nodes[n].permissions # 128
            /\ HasPermission(nodes[n], "x") /\ ~HasPermission(nodes[T], "x")

\* C14: in the tree built from any sequence of archive records only
\* directories have children: every node that has children, and so every node
\* created for a segment that is not the last of its record, is a directory.
PlaceholdersAreDirectories ==
    \A n \in DOMAIN nodes : ~nodes[n].is_dir => nodes[n].children = <<>>

RECURSIVE SegmentWalk(_, _, _)
\* the left-to-right walk from node n over the segments segs: '.' keeps the
\* node, '..' goes to the parent that is found or else to the root, another
\* segment goes to the child of that name; a segment naming no child ends
\* the walk with not-found
SegmentWalk(ns, n, segs) ==
    IF segs = <<>> THEN n
    ELSE LET seg == Head(segs)
             named == {c \in ChildSet(ns, n) : ns[c].name = seg}
         IN IF seg = <<".">> THEN SegmentWalk(ns, n, Tail(segs))
            ELSE IF seg = DotDot THEN SegmentWalk(ns, UpFrom(ns, n), Tail(segs))
            ELSE IF named = {} THEN NoNode
            ELSE SegmentWalk(ns, CHOOSE c \in named : TRUE, Tail(segs))

\* the non-empty segments of a path, without the last when the parent is wanted
WalkedSegments(path, want_parent) ==
    LET segs == Segments(path) IN
    IF want_parent /\ segs # <<>> THEN SubSeq(segs, 1, Len(segs) - 1) ELSE segs

\* C15: path resolution is the left-to-right walk over the segments of the
\* path, from the root for a path that begins with the separator and from the
\* cursor otherwise, empty segments and '.' keeping the node, '..' going to
\* the parent or to the root when no parent is found, and the first segment
\* that names no child making the whole resolution not-found; when the parent
\* is wanted the last segment is dropped before the walk.
ResolutionIsSegmentWalk ==
    pc = "script" =>
        \A path \in PathArgs, want_parent \in BOOLEAN :
            NavigatePath(nodes, cwd, path, want_parent) =
                SegmentWalk(nodes, IF path # <<>> /\ path[1] = "/" THEN ROOT ELSE cwd,
                            WalkedSegments(path, want_parent))

\* C15 witness: from a cursor below the root, '..' resolves to a parent that
\* is not the root, a path whose first segment names no child does not
\* resolve although its second segment would, and the parent of an absolute
\* path of one segment is the root
ResolutionIsSegmentWalkWitness ==
    /\ pc = "script"
    /\ cwd # ROOT
    /\ NavigatePath(nodes, cwd, DotDot, FALSE) \notin {NoNode, ROOT, cwd}
    /\ NavigatePath(nodes, cwd, <<"a", "/", ".">>, FALSE) = NoNode
    /\ NavigatePath(nodes, cwd, <<"/", "a", "a">>, TRUE) = ROOT
    /\ NavigatePath(nodes, cwd, <<"/", "a", "a">>, FALSE) # NoNode

\* the (path, permissions) pairs of the non-root nodes
TreeModes(ns) ==
    { << [i \in 1..(Len(ch) - 1) |-> ns[ch[i + 1]].name], ns[ch[Len(ch)]].permissions >> :
        ch \in Below(ns, ROOT) \ {<<ROOT>>} }

\* the low nine bits of the high half of the external attributes, and 0o755
\* in their place when they are all zero
DeclaredMode(file_info) ==
    LET high == file_info.external_attr[1]
        low9 == high - 512 * (high \div 512)
    IN IF low9 = 0 THEN 493 ELSE low9

\* record i is the first to supply its path: no earlier record supplies that
\* path or a path below it, so the node of its last segment is made for it
MakesItsNode(infolist, i) ==
    \A j \in 1..(i - 1) :
        ~IsPrefix(Segments(infolist[i].filename), Segments(infolist[j].filename))

\* C16: the node created for the last segment of a record has the mode
\* (external_attr >> 16) & 0o777 when that is not zero and 0o755 when it is,
\* for file and directory records alike; and no node of a built tree has
\* permissions 0 or a bit outside 0o777.
BuildModes ==
    /\ \A i \in 1..(Len(archive) - Len(pending)) :
            MakesItsNode(archive, i) =>
                <<Segments(archive[i].filename), DeclaredMode(archive[i])>>
                    \in TreeModes(nodes)
    /\ \A n \in DOMAIN nodes : nodes[n].permissions \in 1..511

\* C16 witness: a built tree with the node of a record whose attributes have
\* a type bit but no permission bit, holding 0o755, and the node of a file
\* record with 0o644, holding 0o644
BuildModesWitness ==
    /\ pc # "load"
    /\ \E i, j \in 1..Len(archive) :
        /\ MakesItsNode(archive, i) /\ MakesItsNode(archive, j)
        /\ archive[i].external_attr = <<16384, 16>>
        /\ <<Segments(archive[i].filename), 493>> \in TreeModes(nodes)
        /\ archive[j].external_attr = <<33188, 0>> /\ ~IsDirEntry(archive[j])
        /\ <<Segments(archive[j].filename), 420>> \in TreeModes(nodes)

\* C17: a node whose permissions lack the write bit 0o200, from the archive
\* or from a chmod, keeps its permissions and its children mapping through
\* every step for as long as it exists; so a node that has lost the write bit
\* never has its mode changed or an entry removed again, the root included.
WriteLossIsFinal ==
    [][ \A n \in DOMAIN nodes \cap DOMAIN nodes' :
            ~BitSet(nodes, n, 128) =>
                /\ nodes'[n].permissions = nodes[n].permissions
                /\ nodes'[n].children = nodes[n].children ]_vars

\* C17 witness: after a chmod took the write bit from the root, an rm of one
\* of the root's children was denied and a chmod of the root was denied
WriteLossIsFinalWitness ==
    /\ ~BitSet(nodes, ROOT, 128)
    /\ nodes[ROOT].permissions # 493
    /\ nodes[ROOT].children # <<>>
    /\ \/ /\ Ran("rm") /\ cmd.args # <<>>
          /\ NavigatePath(nodes, cwd, cmd.args[1], TRUE) = ROOT
          /\ out = <<Line("rm: cannot remove '{}': Permission denied", cmd.args[1])>>
       \/ /\ Ran("chmod") /\ Len(cmd.args) = 2
          /\ NavigatePath(nodes, cwd, cmd.args[2], FALSE) = ROOT
          /\ out = <<Line("chmod: cannot change permissions of '{}': Permission denied",
                          cmd.args[2])>>

\* C18: ls and find, with every argument and every outcome, errors included,
\* leave the cursor, the set of nodes, every children mapping and every
\* node's permissions as they were; chmod and rm leave the cursor as it was.
ReadOnlyCommands ==
    [][ /\ (Executes("ls") \/ Executes("find")) => (cwd' = cwd /\ nodes' = nodes)
        /\ (Executes("chmod") \/ Executes("rm")) => cwd' = cwd ]_vars

\* C18 witness: away from the root, in a directory with children, a find
\* printed a permission-denied line or an ls of another path printed an error
ReadOnlyCommandsWitness ==
    /\ cwd # ROOT
    /\ nodes[cwd].children # <<>>
    /\ \/ /\ Ran("find")
          /\ \E i \in 1..Len(out) : out[i] = FindDenied(out[i].arg)
       \/ /\ Ran("ls") /\ cmd.args # <<>>
          /\ NavigatePath(nodes, cwd, cmd.args[1], FALSE) # cwd
          /\ \E i \in 1..Len(out) : out[i].fmt # "{}"

RECURSIVE Visited(_, _, _)
\* the nodes the segment walk from n over segs is at, first and last included
Visited(ns, n, segs) ==
    IF n = NoNode THEN {}
    ELSE IF segs = <<>> THEN {n}
    ELSE {n} \cup Visited(ns, SegmentWalk(ns, n, <<Head(segs)>>), Tail(segs))

\* where the resolution of a path starts
StartOf(path) == IF path # <<>> /\ path[1] = "/" THEN ROOT ELSE cwd

\* the nodes walked through by a path (or by the path of its parent) on the
\* way to the node the walk ends at
WalkedThrough(path, want_parent) ==
    Visited(nodes, StartOf(path), WalkedSegments(path, want_parent))
        \ {NavigatePath(nodes, cwd, path, want_parent)}

\* the modes tried on a node walked through
OtherModes == {0, 64, 128, 256, 448, 511}

\* the heap with the permissions of node n set to m
WithMode(n, m) == [nodes EXCEPT ![n].permissions = m]

\* effect e2, obtained on WithMode(n, m), is effect e1, obtained on nodes:
\* the same lines, the same cursor, the same tree but for the mode of n
SameOutcome(e1, e2, n) ==
    /\ e2.out = e1.out
    /\ e2.cwd = e1.cwd
    /\ [e2.nodes EXCEPT ![n].permissions = nodes[n].permissions] = e1.nodes

\* the outcome of the command on its arguments does not depend on the mode of
\* any node in `through`
Independent(name, args, through) ==
    \A n \in through, m \in OtherModes :
        LET ns2 == WithMode(n, m) IN
        CASE name = "cd" -> SameOutcome(Cd(nodes, cwd, args), Cd(ns2, cwd, args), n)
          [] name = "ls" -> SameOutcome(Ls(nodes, cwd, args), Ls(ns2, cwd, args), n)
          [] name = "chmod" ->
                SameOutcome(Chmod(nodes, cwd, args), Chmod(ns2, cwd, args), n)
          [] name = "rm" -> SameOutcome(Rm(nodes, cwd, args), Rm(ns2, cwd, args), n)

\* a find reports nothing inside a directory without the execute bit that
\* lies below the cursor
FindStaysOutside ==
    Ran("find") =>
        \A ch \in Below(nodes, cwd) : \A k \in 2..(Len(ch) - 1) :
            (nodes[ch[k]].is_dir /\ ~BitSet(nodes, ch[k], 64)) =>
                CountAbout(out, RelPath(nodes, ch)) = 0

\* C19 as stated: the outcome of cd, ls, chmod and rm on a path does not
\* depend on the permission bits of any node the path walks through between
\* its start and its final node, and a find started above a directory
\* without the execute bit reports nothing inside it.
GatingOnFinalNodeOnly ==
    /\ pc = "script" =>
        \A path \in PathArgs :
            LET through == WalkedThrough(path, FALSE) \ {StartOf(path)} IN
            /\ Independent("cd", <<path>>, through)
            /\ Independent("ls", <<path>>, through)
            /\ \A mode \in ModeArgs : Independent("chmod", <<mode, path>>, through)
            /\ Independent("rm", <<path>>, through)
    /\ FindStaysOutside

\* C19 amended: the outcome of cd, ls and chmod on a path does not depend on
\* the permission bits of any node the path walks through before its final
\* node, and the outcome of rm does not depend on the bits of any node walked
\* through before the parent of the last segment (it is gated on the write
\* bit of that parent); so cd enters a directory with the execute bit even
\* below an ancestor without it, while a find started above a directory
\* without the execute bit reports nothing inside it.
GatingOnResolvedNodeOnly ==
    /\ pc = "script" =>
        \A path \in PathArgs :
            LET through == WalkedThrough(path, FALSE) IN
            /\ Independent("cd", <<path>>, through)
            /\ Independent("ls", <<path>>, through)
            /\ \A mode \in ModeArgs : Independent("chmod", <<mode, path>>, through)
            /\ Independent("rm", <<path>>, WalkedThrough(path, TRUE))
    /\ FindStaysOutside

\* C19 witness: a cd has moved the cursor into a directory whose parent has
\* no execute bit, along a path that walks through that parent
GatingOnResolvedNodeOnlyWitness ==
    /\ Ran("cd") /\ cmd.args # <<>> /\ out = <<>>
    /\ cwd # ROOT
    /\ BitSet(nodes, cwd, 64)
    /\ \E P \in Parents(nodes, cwd) :
        /\ P \in ChildSet(nodes, ROOT)
        /\ nodes[P].is_dir /\ ~BitSet(nodes, P, 64)
        /\ cmd.args[1] = nodes[P].name \o <<"/">> \o nodes[cwd].name

====
